---- MODULE Spec2Model ----
(***************************************************************************)
(* georank: the street ranking engine.                                     *)
(*                                                                         *)
(*   src/app.py            /streets (the ranking run, streamed as events)  *)
(*                         and /update-weights                             *)
(*   src/api/places.py     get_merged_streets_only (candidate merge)       *)
(*   src/api/amenities.py  get_amenities_nearby (amenity lookup)           *)
(*   src/score.py          calculate_street_score, calculate_noise_level   *)
(*                                                                         *)
(* Numbers.  A score is held in hundredths (score 5.0 is 500), a noise     *)
(* weight in tenths (3.0 is 30), a coordinate in units of 1e-7 degree.     *)
(* The progress percentage is computed in IEEE-754 binary64, as Python     *)
(* computes int(((idx + 1) / total_streets) * 100): the mantissa is a      *)
(* multi-limb natural number, because the 53 bits do not fit TLC's         *)
(* integers.                                                               *)
(***************************************************************************)
EXTENDS Integers, Sequences, FiniteSets, TLC

VARIABLES
    pc,              \* where the request is: see the actions
    places_api,      \* "up" | "down": down, every request to the places service fails
    osm_streets,     \* get_osm_streets' result: a dict, as its items in order
    google_streets,  \* get_google_streets' result, likewise
    weights,         \* the request's custom weights / the scorer's custom_weights
    merged_streets,  \* the candidate list of the run
    idx,             \* the loop index of event_stream
    amenities,       \* the amenity map of the street in processing / the call's argument
    scored_streets,  \* the accumulator of event_stream
    events,          \* the events yielded so far, in order
    lookups,         \* history: how many amenity lookups have started
    failed,          \* history: the indices (0-based) whose lookup failed as a whole
    preferences,     \* /update-weights: the request's list
    result           \* the value returned by the call of a function specification

vars == <<pc, places_api, osm_streets, google_streets, weights, merged_streets, idx,
          amenities, scored_streets, events, lookups, failed, preferences, result>>

-----------------------------------------------------------------------------
(* Bounds of the model.                                                    *)

\* the street names of a source are drawn from 1..MaxNames
MaxNames == 2
\* the longest candidate list (reached while the places service is down)
MaxLong == 102
\* the most places one place-type search returns
MaxPlaces == 2
\* the longest preference list sent to /update-weights
MaxPrefs == 4
\* the largest count of one category handed to calculate_street_score
MaxCount == 2
\* the largest count of one category handed to calculate_noise_level
MaxNoisy == 30

-----------------------------------------------------------------------------
(* Natural numbers of any size: little-endian limbs in base 2^15, without  *)
(* leading zero limbs; <<>> is zero.                                       *)

BigBase == 2 ^ 15

RECURSIVE BigNorm(_)
BigNorm(a) ==
    IF a = <<>> THEN <<>>
    ELSE IF a[Len(a)] = 0 THEN BigNorm(SubSeq(a, 1, Len(a) - 1))
    ELSE a

RECURSIVE BigOf(_)
BigOf(n) == IF n = 0 THEN <<>> ELSE <<n % BigBase>> \o BigOf(n \div BigBase)

RECURSIVE BigToInt(_)
BigToInt(a) == IF a = <<>> THEN 0 ELSE a[1] + BigBase * BigToInt(Tail(a))

\* a * c + carry, for 0 <= c <= 2^15
RECURSIVE BigMulAdd(_, _, _)
BigMulAdd(a, c, carry) ==
    IF a = <<>>
    THEN BigOf(carry)
    ELSE LET t == a[1] * c + carry
         IN  IF Len(a) = 1
             THEN BigOf(t)
             ELSE <<t % BigBase>> \o BigMulAdd(Tail(a), c, t \div BigBase)

\* a shifted left by n limbs
BigLimbs(a, n) == IF a = <<>> THEN <<>> ELSE [i \in 1..n |-> 0] \o a

\* quotient and remainder of a by d, for 0 < d <= 2^15
BigDivMod(a, d) ==
    LET rem[i \in 1..(Len(a) + 1)] ==
            IF i = Len(a) + 1 THEN 0 ELSE (rem[i + 1] * BigBase + a[i]) % d
    IN  [quot |-> BigNorm([i \in 1..Len(a) |-> (rem[i + 1] * BigBase + a[i]) \div d]),
         rem  |-> rem[1]]

RECURSIVE BigLeq(_, _)
BigLeq(a, b) ==
    IF Len(a) # Len(b) THEN Len(a) < Len(b)
    ELSE IF a = <<>> THEN TRUE
    ELSE LET n == Len(a)
         IN  IF a[n] # b[n] THEN a[n] < b[n]
             ELSE BigLeq(SubSeq(a, 1, n - 1), SubSeq(b, 1, n - 1))

BigShl(a, s) == BigLimbs(BigMulAdd(a, 2 ^ (s % 15), 0), s \div 15)

\* floor(a / 2^s)
BigShr(a, s) ==
    IF s \div 15 >= Len(a) THEN <<>>
    ELSE BigDivMod(SubSeq(a, (s \div 15) + 1, Len(a)), 2 ^ (s % 15)).quot

BigOdd(a) == a # <<>> /\ a[1] % 2 = 1

-----------------------------------------------------------------------------
(* IEEE-754 binary64, for positive values: [mant, exp] is mant * 2^exp     *)
(* with 2^52 <= mant <= 2^53; every operation rounds to nearest, ties to   *)
(* even, as the hardware does.                                             *)

\* the least t >= 0 with k * 2^t >= n
RECURSIVE Lift(_, _)
Lift(k, n) == IF k >= n THEN 0 ELSE 1 + Lift(2 * k, n)

\* round the quotient q (remainder r of a division by d) to nearest, ties to even
RoundQuot(q, r, d) ==
    IF 2 * r > d \/ (2 * r = d /\ BigOdd(q)) THEN BigMulAdd(q, 1, 1) ELSE q

\* the double k / n, for integers 0 < k <= n <= 2^15
FloatDiv(k, n) ==
    LET s  == 52 + Lift(k, n)
        dm == BigDivMod(BigShl(BigOf(k), s), n)
    IN  [mant |-> RoundQuot(dm.quot, dm.rem, n), exp |-> 0 - s]

\* the least d >= 0 with p < 2^(53 + d)
RECURSIVE Excess(_, _)
Excess(p, d) ==
    IF BigLeq(BigShl(<<1>>, 53 + d), p) THEN Excess(p, d + 1) ELSE d

\* the double x * c, for a double x and an integer 0 < c < 2^7
FloatMul(x, c) ==
    LET p  == BigMulAdd(x.mant, c, 0)
        d  == Excess(p, 0)
        dm == BigDivMod(p, 2 ^ d)
    IN  [mant |-> RoundQuot(BigShr(p, d), dm.rem, 2 ^ d), exp |-> x.exp + d]

\* int(x): truncation
FloatInt(x) ==
    BigToInt(IF x.exp >= 0 THEN BigShl(x.mant, x.exp) ELSE BigShr(x.mant, 0 - x.exp))

\* the percentage of the index itself: int((idx / total_streets) * 100)
ProgressOfIndex(i, total) ==
    IF i = 0 THEN 0 ELSE FloatInt(FloatMul(FloatDiv(i, total), 100))

\* src/app.py:77   progress = int(((idx + 1) / total_streets) * 100)
Progress(i, total) == FloatInt(FloatMul(FloatDiv(i + 1, total), 100))

-----------------------------------------------------------------------------
(* Small helpers.                                                          *)

RECURSIVE SumOver(_, _)
SumOver(f, S) ==
    IF S = {} THEN 0
    ELSE LET x == CHOOSE y \in S : TRUE IN f[x] + SumOver(f, S \ {x})

RECURSIVE SumSeq(_)
SumSeq(s) == IF s = <<>> THEN 0 ELSE s[1] + SumSeq(Tail(s))

SetMax(S) == CHOOSE x \in S : \A y \in S : y <= x
SetMin(S) == CHOOSE x \in S : \A y \in S : x <= y

\* a Python dict with no key: {} (and None, where the code only tests truth)
EmptyDict == <<>>

\* d[k] = v
DictSet(d, k, v) == [x \in (DOMAIN d) \cup {k} |-> IF x = k THEN v ELSE d[x]]

-----------------------------------------------------------------------------
(* src/score.py                                                            *)

\* src/score.py:11-25
AMENITY_WEIGHTS ==
    [c \in {"Hospital", "School", "College", "Shrine", "Junction", "Bus Stand",
            "Entertainment", "Restaurant", "Shops", "Park", "Gym", "Gas Station",
            "Bank"} |->
        CASE c = "Hospital" -> 13 [] c = "School" -> 12 [] c = "College" -> 11
          [] c = "Shrine" -> 10 [] c = "Junction" -> 9 [] c = "Bus Stand" -> 8
          [] c = "Entertainment" -> 7 [] c = "Restaurant" -> 6 [] c = "Shops" -> 5
          [] c = "Park" -> 4 [] c = "Gym" -> 3 [] c = "Gas Station" -> 2
          [] c = "Bank" -> 1]

\* src/score.py:43-50, in tenths
NOISE_WEIGHTS ==
    [c \in {"Transports", "Shops", "Entertainment", "Restaurants", "Shrines", "Parks"} |->
        CASE c = "Transports" -> 30 [] c = "Shops" -> 20 [] c = "Entertainment" -> 25
          [] c = "Restaurants" -> 15 [] c = "Shrines" -> 5 [] c = "Parks" -> 3]

\* what calculate_street_score yields when line 70 raises KeyError: no score
KeyError == 0 - 1

\* a count that takes an absent category for one place
CategoryCountAbsentOne(amen, category) ==
    IF category \in DOMAIN amen THEN amen[category] ELSE 1

\* src/score.py:68   len(amenities.get(category, [])); an amenity map holds the
\* length of each category's list
CategoryCount(amen, category) ==
    IF category \in DOMAIN amen THEN amen[category] ELSE 0

\* src/score.py:65   custom_weights if custom_weights else AMENITY_WEIGHTS
WeightsDict(custom_weights) ==
    IF custom_weights # EmptyDict THEN custom_weights ELSE AMENITY_WEIGHTS

\* 1000 * sqrt(a) / (sqrt(a) + sqrt(b)) >= m - 1/2, in exact arithmetic:
\* (2001 - 2m)^2 * a >= (2m - 1)^2 * b
RatioReaches(a, b, m) ==
    BigLeq(BigMulAdd(BigMulAdd(BigOf(b), 2 * m - 1, 0), 2 * m - 1, 0),
           BigMulAdd(BigMulAdd(BigOf(a), 2001 - 2 * m, 0), 2001 - 2 * m, 0))

RatioOnTie(a, b, m) ==
    BigMulAdd(BigMulAdd(BigOf(b), 2 * m - 1, 0), 2 * m - 1, 0)
        = BigMulAdd(BigMulAdd(BigOf(a), 2001 - 2 * m, 0), 2001 - 2 * m, 0)

\* the greatest m in lo..hi that the ratio reaches (it reaches lo)
RECURSIVE RatioSearch(_, _, _, _)
RatioSearch(a, b, lo, hi) ==
    IF lo = hi THEN lo
    ELSE LET mid == (lo + hi + 1) \div 2
         IN  IF RatioReaches(a, b, mid)
             THEN RatioSearch(a, b, mid, hi)
             ELSE RatioSearch(a, b, lo, mid - 1)

\* src/score.py:85-93   round(distance_to_worst / (distance_to_best +
\* distance_to_worst) * 10, 2), in hundredths, from the squared distances
\* (the norm of line 75 divides both distances and cancels); a tie goes to even
RoundedRatio(worst2, best2) ==
    LET m == RatioSearch(worst2, best2, 0, 1000)
    IN  IF m > 0 /\ m % 2 = 1 /\ RatioOnTie(worst2, best2, m) THEN m - 1 ELSE m

\* src/score.py:52-94   the score in hundredths, or KeyError
calculate_street_score(amen, custom_weights) ==
    LET weights_dict == WeightsDict(custom_weights)
        keys == DOMAIN weights_dict
    IN  IF \E c \in keys : c \notin DOMAIN AMENITY_WEIGHTS
        THEN KeyError   \* line 70 evaluates AMENITY_WEIGHTS[category] for every key
        ELSE LET value == [c \in keys |-> CategoryCount(amen, c)]
                 norm2 == SumOver([c \in keys |-> value[c] * value[c]], keys)
                 wn    == [c \in keys |-> value[c] * weights_dict[c]]
                 best  == SetMax({wn[c] : c \in keys})
                 worst == SetMin({wn[c] : c \in keys})
                 best2  == SumOver([c \in keys |-> (wn[c] - best) * (wn[c] - best)], keys)
                 worst2 == SumOver([c \in keys |-> (wn[c] - worst) * (wn[c] - worst)], keys)
             IN  IF norm2 = 0 THEN 0
                 ELSE IF best2 + worst2 = 0 THEN 0
                 ELSE RoundedRatio(worst2, best2)

\* NOISE_WEIGHTS.get(category, 0): a category outside the table makes no noise
NoiseWeightTableOnly(category) ==
    IF category \in DOMAIN NOISE_WEIGHTS THEN NOISE_WEIGHTS[category] ELSE 0

\* src/score.py:108   NOISE_WEIGHTS.get(category, 1.0), in tenths
NoiseWeight(category) ==
    IF category \in DOMAIN NOISE_WEIGHTS THEN NOISE_WEIGHTS[category] ELSE 10

\* src/score.py:105   max_noise, in tenths
MaxNoise == SumOver(NOISE_WEIGHTS, DOMAIN NOISE_WEIGHTS) * 10

\* the integer nearest to a / b (a tie goes to even)
RoundDiv(a, b) ==
    LET q == a \div b
        r == a % b
    IN  IF 2 * r > b \/ (2 * r = b /\ q % 2 = 1) THEN q + 1 ELSE q

\* src/score.py:104-113   noise_score, in hundredths
NoiseScore(amen) ==
    LET total_noise == SumOver([c \in DOMAIN amen |-> NoiseWeight(c) * amen[c]], DOMAIN amen)
    IN  RoundDiv(total_noise * 1000, MaxNoise)

\* src/score.py:96-123
calculate_noise_level(amen) ==
    IF NoiseScore(amen) >= 700 THEN "High"
    ELSE IF NoiseScore(amen) >= 400 THEN "Medium"
    ELSE "Low"

-----------------------------------------------------------------------------
(* src/api/places.py                                                       *)
(* A street name is a natural number; a dict of streets is the sequence of *)
(* its items [name, lat, lng] in insertion order, names distinct.          *)

\* src/api/places.py:20   round(x, 6) of a coordinate held in units of 1e-7: the
\* nearest multiple of 10 (a last digit of 5 is decided by the double's binary
\* expansion; Coords holds no such value)
Round6(x) ==
    LET r == x % 10
    IN  IF r < 5 THEN x - r
        ELSE IF r > 5 THEN x - r + 10
        ELSE IF ((x - r) \div 10) % 2 = 0 THEN x - r ELSE x - r + 10

DictHas(d, name) == \E i \in 1..Len(d) : d[i].name = name

DictItem(d, name) == d[CHOOSE i \in 1..Len(d) : d[i].name = name]

\* src/api/places.py:19   {**osm_streets, **google_streets}: the keys of the first
\* dict keep their place and take the second dict's value, the second dict's new
\* keys follow in its order
DictUnion(a, b) ==
    [i \in 1..Len(a) |-> IF DictHas(b, a[i].name) THEN DictItem(b, a[i].name) ELSE a[i]]
        \o SelectSeq(b, LAMBDA item : ~DictHas(a, item.name))

\* src/api/places.py:20
StreetKey(item) == <<item.name, Round6(item.lat), Round6(item.lng)>>

\* src/api/places.py:18-24   the keys of merged_streets, in insertion order: an
\* item adds its key unless an earlier item had that key (line 21)
MergeKeys(items) ==
    LET keys  == [i \in 1..Len(items) |-> StreetKey(items[i])]
        first == SelectSeq([i \in 1..Len(items) |-> i],
                           LAMBDA i : \A j \in 1..(i - 1) : keys[j] # keys[i])
    IN  [k \in 1..Len(first) |-> keys[first[k]]]

\* src/api/places.py:12-24
get_merged_streets_only(osm, google) == MergeKeys(DictUnion(osm, google))

-----------------------------------------------------------------------------
(* src/api/amenities.py                                                    *)

\* src/api/amenities.py:10-24
AMENITY_CATEGORIES ==
    [c \in DOMAIN AMENITY_WEIGHTS |->
        CASE c = "Hospital" -> <<"hospital", "physiotherapist">>
          [] c = "School" -> <<"school">>
          [] c = "College" -> <<"university">>
          [] c = "Shrine" -> <<"hindu_temple", "church", "mosque">>
          [] c = "Junction" -> <<"train_station">>
          [] c = "Bus Stand" -> <<"bus_station">>
          [] c = "Entertainment" -> <<"movie_theater", "stadium">>
          [] c = "Restaurant" -> <<"restaurant", "cafe">>
          [] c = "Shops" -> <<"supermarket", "grocery_or_supermarket", "shopping_mall",
                              "clothing_store", "convenience_store", "pharmacy">>
          [] c = "Park" -> <<"park">>
          [] c = "Gym" -> <<"gym">>
          [] c = "Gas Station" -> <<"gas_station">>
          [] c = "Bank" -> <<"bank">>]

PlaceTypes ==
    UNION {{AMENITY_CATEGORIES[c][i] : i \in 1..Len(AMENITY_CATEGORIES[c])} :
           c \in DOMAIN AMENITY_CATEGORIES}

\* the outcome of one search (lines 111-126): requests.get or raise_for_status
\* raises RequestException, or the search has results, of which n become an amenity
RequestException == [raises |-> TRUE, places |-> 0]
Found(n) == [raises |-> FALSE, places |-> n]

\* src/api/amenities.py:102-130   the places one category collects: a search that
\* raises RequestException is skipped (line 128), the others add the amenities
\* built from their results.  responses maps a place type to its outcome.
RECURSIVE PlacesOf(_, _)
PlacesOf(place_types, responses) ==
    IF place_types = <<>> THEN 0
    ELSE (IF responses[place_types[1]].raises
          THEN 0 ELSE responses[place_types[1]].places)
         + PlacesOf(Tail(place_types), responses)

\* the lookup without the try of lines 110-130: a failing search leaves the function
get_amenities_nearby_unguarded(responses) ==
    LET places == [c \in DOMAIN AMENITY_CATEGORIES |->
                        PlacesOf(AMENITY_CATEGORIES[c], responses)]
        found  == {c \in DOMAIN AMENITY_CATEGORIES : places[c] > 0}
    IN  [raised |-> \E t \in PlaceTypes : responses[t].raises,
         amenities |-> [c \in found |-> places[c]]]

\* src/api/amenities.py:92-135   [raised: whether an exception leaves the function,
\* amenities: the map returned]; a category with no place is left out (line 132)
get_amenities_nearby(responses) ==
    LET places == [c \in DOMAIN AMENITY_CATEGORIES |->
                        PlacesOf(AMENITY_CATEGORIES[c], responses)]
        found  == {c \in DOMAIN AMENITY_CATEGORIES : places[c] > 0}
    IN  [raised |-> FALSE, amenities |-> [c \in found |-> places[c]]]

\* the whole lookup failed: every search raised
LookupFailed(responses) == \A t \in PlaceTypes : responses[t].raises

-----------------------------------------------------------------------------
(* src/app.py   /update-weights                                            *)

\* the weights with dict.setdefault: the first item of a name is kept
RECURSIVE WeightsFromFirst(_, _, _)
WeightsFromFirst(prefs, i, d) ==
    IF i > Len(prefs) THEN d
    ELSE WeightsFromFirst(prefs, i + 1,
                          IF prefs[i] \in DOMAIN d THEN d
                          ELSE DictSet(d, prefs[i], Len(prefs) - (i - 1)))

\* src/app.py:104-105   {amenity: max_score - idx for idx, amenity in
\* enumerate(preferences)}: a later item overwrites an earlier one
RECURSIVE WeightsFrom(_, _, _)
WeightsFrom(prefs, i, d) ==
    IF i > Len(prefs) THEN d
    ELSE WeightsFrom(prefs, i + 1, DictSet(d, prefs[i], Len(prefs) - (i - 1)))

\* src/app.py:99-107
update_weights(prefs) == WeightsFrom(prefs, 1, EmptyDict)

-----------------------------------------------------------------------------
(* src/app.py   /streets                                                   *)

\* a sort by score that is not stable: of equal scores the later item comes first
SortedIndexLaterFirst(s, i) ==
    Cardinality({j \in 1..Len(s) : s[j].score > s[i].score})
        + Cardinality({j \in (i + 1)..Len(s) : s[j].score = s[i].score}) + 1

\* src/app.py:82   scored_streets.sort(key=lambda x: x[3], reverse=True): where
\* the item at index i goes.  The sort is stable: an item follows the items of
\* greater score and the earlier items of equal score
SortedIndex(s, i) ==
    Cardinality({j \in 1..Len(s) : s[j].score > s[i].score})
        + Cardinality({j \in 1..(i - 1) : s[j].score = s[i].score}) + 1

SortByScore(s) ==
    LET place == [i \in 1..Len(s) |-> SortedIndex(s, i)]
    IN  [k \in 1..Len(s) |-> s[CHOOSE i \in 1..Len(s) : place[i] = k]]

\* src/app.py:60
total_streets == Len(merged_streets)

-----------------------------------------------------------------------------
(* The requests the model sends.                                           *)

\* the coordinates the street sources report, in units of 1e-7 degree: the second
\* rounds to the first, the third does not
Coords ==
    {<<130000000, 800000000>>, <<130000004, 800000000>>, <<130000000, 800000016>>}

RECURSIVE Ascending(_)
Ascending(S) ==
    IF S = {} THEN <<>> ELSE <<SetMin(S)>> \o Ascending(S \ {SetMin(S)})

\* the dicts a street source returns: some of the names 1..MaxNames, each somewhere
StreetDicts ==
    UNION {{[i \in 1..Cardinality(S) |->
                [name |-> Ascending(S)[i],
                 lat  |-> f[Ascending(S)[i]][1],
                 lng  |-> f[Ascending(S)[i]][2]]] : f \in [S -> Coords]} :
           S \in SUBSET (1..MaxNames)}

\* n streets of one source, all at one place
LongDict(n) == [i \in 1..n |-> [name |-> i, lat |-> 130000000, lng |-> 800000000]]

\* the custom weights a /streets request carries: none, or Park before Hospital
RunWeights == {EmptyDict, update_weights(<<"Park", "Hospital">>)}

\* what the places service answers to the searches of one lookup
AllFail == [t \in PlaceTypes |-> RequestException]
NoPlace == [t \in PlaceTypes |-> Found(0)]
ParkSide ==
    [t \in PlaceTypes |->
        CASE t = "hospital" -> Found(1) [] t = "park" -> Found(MaxPlaces)
          [] OTHER -> Found(0)]
HighStreet ==
    [t \in PlaceTypes |->
        CASE t = "hospital" -> RequestException [] t = "physiotherapist" -> Found(1)
          [] t = "school" -> Found(1) [] t = "restaurant" -> Found(MaxPlaces)
          [] t = "cafe" -> Found(1) [] OTHER -> Found(0)]

Responses(api) ==
    IF api = "down" THEN {AllFail} ELSE {AllFail, NoPlace, ParkSide, HighStreet}

-----------------------------------------------------------------------------
(* The ranking run: POST /streets.                                         *)
(*   pc: "request" -> "stream" -> ("lookup" -> "score" -> "yield")* ->     *)
(*       "final" -> "done"; "aborted" after an exception in the generator  *)

Init ==
    /\ pc = "request"
    /\ \/ /\ places_api = "up"
          /\ osm_streets \in StreetDicts
          /\ google_streets \in StreetDicts
          /\ weights \in RunWeights
       \/ /\ places_api = "down"
          /\ osm_streets \in StreetDicts \cup {LongDict(n) : n \in (MaxNames + 1)..MaxLong}
          /\ google_streets = <<>>
          /\ weights = EmptyDict
    /\ merged_streets = <<>>
    /\ idx = 0
    /\ amenities = EmptyDict
    /\ scored_streets = <<>>
    /\ events = <<>>
    /\ lookups = 0
    /\ failed = {}
    /\ preferences = <<>>
    /\ result = 0

\* src/app.py:50-60, 96   the handler up to the StreamingResponse; the two source
\* dicts are locals of get_merged_streets_only
Streets ==
    /\ pc = "request"
    /\ merged_streets' = get_merged_streets_only(osm_streets, google_streets)
    /\ osm_streets' = <<>>
    /\ google_streets' = <<>>
    /\ pc' = "stream"
    /\ UNCHANGED <<places_api, weights, idx, amenities, scored_streets, events,
                   lookups, failed, preferences, result>>

\* the generator without the test of line 63: the count, then the final event
StreamEmptyCounted ==
    /\ pc = "stream"
    /\ total_streets = 0
    /\ events' = Append(events, [count |-> total_streets])
    /\ pc' = "final"
    /\ UNCHANGED <<places_api, osm_streets, google_streets, weights, merged_streets,
                   idx, amenities, scored_streets, lookups, failed, preferences, result>>

\* src/app.py:63-65
StreamEmpty ==
    /\ pc = "stream"
    /\ total_streets = 0
    /\ events' = Append(events, [progress |-> 100, streets |-> <<>>])
    /\ pc' = "done"
    /\ UNCHANGED <<places_api, osm_streets, google_streets, weights, merged_streets,
                   idx, amenities, scored_streets, lookups, failed, preferences, result>>

\* the loop reporting progress at its top, before the street is looked up
StreamCountThenYield ==
    /\ pc = "stream"
    /\ total_streets # 0
    /\ scored_streets' = <<>>
    /\ events' = Append(events, [count |-> total_streets])
    /\ idx' = 0
    /\ pc' = "yield"
    /\ UNCHANGED <<places_api, osm_streets, google_streets, weights, merged_streets,
                   amenities, lookups, failed, preferences, result>>

\* src/app.py:67-69
StreamCount ==
    /\ pc = "stream"
    /\ total_streets # 0
    /\ scored_streets' = <<>>
    /\ events' = Append(events, [count |-> total_streets])
    /\ idx' = 0
    /\ pc' = "lookup"
    /\ UNCHANGED <<places_api, osm_streets, google_streets, weights, merged_streets,
                   amenities, lookups, failed, preferences, result>>

\* src/app.py:70
LookupAmenities ==
    /\ pc = "lookup"
    /\ \E responses \in Responses(places_api) :
          LET r == get_amenities_nearby(responses)
          IN  /\ lookups' = lookups + 1
              /\ IF r.raised
                 THEN /\ pc' = "aborted"
                      /\ UNCHANGED <<amenities, failed>>
                 ELSE /\ pc' = "score"
                      /\ amenities' = r.amenities
                      /\ failed' = IF LookupFailed(responses)
                                   THEN failed \cup {idx} ELSE failed
    /\ UNCHANGED <<places_api, osm_streets, google_streets, weights, merged_streets,
                   idx, scored_streets, events, preferences, result>>

\* src/app.py:71-74
ScoreStreet ==
    /\ pc = "score"
    /\ LET score == calculate_street_score(amenities, weights)
           noise == calculate_noise_level(amenities)
           street == merged_streets[idx + 1]
       IN  IF score = KeyError
           THEN /\ pc' = "aborted"
                /\ UNCHANGED scored_streets
           ELSE /\ pc' = "yield"
                /\ scored_streets' =
                      Append(scored_streets,
                             [name |-> street[1], latitude |-> street[2],
                              longitude |-> street[3], score |-> score,
                              noise |-> noise, amenities |-> amenities])
    /\ UNCHANGED <<places_api, osm_streets, google_streets, weights, merged_streets,
                   idx, amenities, events, lookups, failed, preferences, result>>

\* src/app.py:77-79, and the loop's next index
YieldProgress ==
    /\ pc = "yield"
    /\ events' = Append(events, [progress |-> Progress(idx, total_streets)])
    /\ idx' = idx + 1
    /\ pc' = IF idx + 1 < total_streets THEN "lookup" ELSE "final"
    /\ UNCHANGED <<places_api, osm_streets, google_streets, weights, merged_streets,
                   amenities, scored_streets, lookups, failed, preferences, result>>

\* src/app.py:82-94
FinalStreets ==
    /\ pc = "final"
    /\ scored_streets' = SortByScore(scored_streets)
    /\ events' = Append(events, [streets |-> scored_streets'])
    /\ pc' = "done"
    /\ UNCHANGED <<places_api, osm_streets, google_streets, weights, merged_streets,
                   idx, amenities, lookups, failed, preferences, result>>

Next ==
    \/ Streets
    \/ StreamEmpty
    \/ StreamCount
    \/ LookupAmenities
    \/ ScoreStreet
    \/ YieldProgress
    \/ FinalStreets

Spec == Init /\ [][Next]_vars

-----------------------------------------------------------------------------
(* POST /update-weights, alone.                                            *)

\* the names a preference list is made of: two of the catalog, one not in it
PrefNames == {"Hospital", "Park", "Cinema"}

PrefLists == UNION {[1..n -> PrefNames] : n \in 0..MaxPrefs}

InitWeights ==
    /\ pc = "call"
    /\ preferences \in PrefLists
    /\ result = EmptyDict
    /\ places_api = "up"
    /\ osm_streets = <<>>
    /\ google_streets = <<>>
    /\ weights = EmptyDict
    /\ merged_streets = <<>>
    /\ idx = 0
    /\ amenities = EmptyDict
    /\ scored_streets = <<>>
    /\ events = <<>>
    /\ lookups = 0
    /\ failed = {}

\* src/app.py:99-107
UpdateWeights ==
    /\ pc = "call"
    /\ result' = update_weights(preferences)
    /\ pc' = "done"
    /\ UNCHANGED <<places_api, osm_streets, google_streets, weights, merged_streets,
                   idx, amenities, scored_streets, events, lookups, failed, preferences>>

SpecWeights == InitWeights /\ [][UpdateWeights]_vars

-----------------------------------------------------------------------------
(* The two estimators on one street: lines 71-72 of event_stream, alone.   *)

\* the categories the amenity maps of this specification hold
ScoreCats == {"Hospital", "Park", "Gym"}

\* a category is absent, or present with a list of 0..MaxCount places
AmenityMaps == UNION {[S -> 0..MaxCount] : S \in SUBSET ScoreCats}

\* no custom weights, or the weights /update-weights makes of a preference list
CustomWeights == {update_weights(p) : p \in PrefLists}

InitScore ==
    /\ pc = "call"
    /\ amenities \in AmenityMaps
    /\ weights \in CustomWeights
    /\ result = EmptyDict
    /\ places_api = "up"
    /\ osm_streets = <<>>
    /\ google_streets = <<>>
    /\ merged_streets = <<>>
    /\ idx = 0
    /\ scored_streets = <<>>
    /\ events = <<>>
    /\ lookups = 0
    /\ failed = {}
    /\ preferences = <<>>

\* src/app.py:71-72
ScoreCall ==
    /\ pc = "call"
    /\ result' = [score |-> calculate_street_score(amenities, weights),
                  noise |-> calculate_noise_level(amenities)]
    /\ pc' = "done"
    /\ UNCHANGED <<places_api, osm_streets, google_streets, weights, merged_streets,
                   idx, amenities, scored_streets, events, lookups, failed, preferences>>

SpecScore == InitScore /\ [][ScoreCall]_vars

-----------------------------------------------------------------------------
(* The noise estimator on a street whose amenity map grows place by place. *)

\* a bucket of the noise table only, a bucket whose weight is not a multiple of
\* 0.5, and a catalog category the table does not name
NoiseCats == {"Transports", "Parks", "Hospital"}

InitNoise ==
    /\ pc = "noise"
    /\ amenities = EmptyDict
    /\ result = calculate_noise_level(EmptyDict)
    /\ places_api = "up"
    /\ osm_streets = <<>>
    /\ google_streets = <<>>
    /\ weights = EmptyDict
    /\ merged_streets = <<>>
    /\ idx = 0
    /\ scored_streets = <<>>
    /\ events = <<>>
    /\ lookups = 0
    /\ failed = {}
    /\ preferences = <<>>

\* src/score.py:96-123, called with one more place in one category
NoiseCall ==
    /\ pc = "noise"
    /\ \E c \in NoiseCats :
          /\ CategoryCount(amenities, c) < MaxNoisy
          /\ amenities' = DictSet(amenities, c, CategoryCount(amenities, c) + 1)
    /\ result' = calculate_noise_level(amenities')
    /\ UNCHANGED <<pc, places_api, osm_streets, google_streets, weights, merged_streets,
                   idx, scored_streets, events, lookups, failed, preferences>>

SpecNoise == InitNoise /\ [][NoiseCall]_vars

-----------------------------------------------------------------------------
(* Properties of the ranking run (Spec).                                   *)

IsProgress(e) == "progress" \in DOMAIN e
IsFinal(e) == "streets" \in DOMAIN e
IsCount(e) == "count" \in DOMAIN e

\* the progress values emitted so far by a run over a non-empty list
ProgressValues ==
    LET ps == SelectSeq(events, LAMBDA e : IsProgress(e) /\ ~IsFinal(e))
    IN  [i \in 1..Len(ps) |-> ps[i].progress]

FinalEmitted == events # <<>> /\ IsFinal(events[Len(events)])

\* the final list of a finished run
FinalList == events[Len(events)].streets

\* the index (1-based) at which event_stream processed the street of an entry
ProcessedAt(entry) ==
    CHOOSE i \in 1..Len(merged_streets) :
        merged_streets[i] = <<entry.name, entry.latitude, entry.longitude>>

\* C1 as stated: the progress values of a run over a non-empty list strictly
\* increase from one progress event to the next, and the last one before the
\* final streets event is 100.
C1_ProgressStrictlyIncreasing ==
    LET p == ProgressValues
    IN  /\ \A i \in 1..(Len(p) - 1) : p[i] < p[i + 1]
        /\ (pc = "done" /\ total_streets # 0) => p[Len(p)] = 100

\* C1 as amended: the progress values never decrease from one progress event to
\* the next (and strictly increase when the list has at most 99 streets), and the
\* last one before the final streets event is 100.
C1_ProgressNeverDecreases ==
    LET p == ProgressValues
    IN  /\ \A i \in 1..(Len(p) - 1) :
              /\ p[i] <= p[i + 1]
              /\ total_streets <= 99 => p[i] < p[i + 1]
        /\ (pc = "done" /\ total_streets # 0) =>
              /\ Len(p) = total_streets
              /\ p[Len(p)] = 100
              /\ IsProgress(events[Len(events) - 1])

\* a finished run over more than 99 streets in which a progress value was repeated
C1_Witness ==
    LET p == ProgressValues
    IN  /\ pc = "done"
        /\ total_streets > 99
        /\ \E i \in 1..(Len(p) - 1) : p[i] = p[i + 1]
        /\ p[Len(p)] = 100

\* C2: the final streets list has as many entries as the deduplicated candidate
\* list (one per candidate), is ordered by score descending, and entries of equal
\* score are in the order in which they were processed.
C2_FinalListSortedStable ==
    (pc = "done" /\ total_streets # 0) =>
        /\ FinalEmitted
        /\ Len(FinalList) = Len(merged_streets)
        /\ \A i \in 1..Len(merged_streets) :
              \E k \in 1..Len(FinalList) :
                  merged_streets[i] = <<FinalList[k].name, FinalList[k].latitude,
                                        FinalList[k].longitude>>
        /\ \A i \in 1..(Len(FinalList) - 1) :
              /\ FinalList[i].score >= FinalList[i + 1].score
              /\ FinalList[i].score = FinalList[i + 1].score =>
                    ProcessedAt(FinalList[i]) < ProcessedAt(FinalList[i + 1])

\* a finished run whose sort moved a later street ahead of an earlier one
C2_Witness ==
    /\ pc = "done"
    /\ total_streets > 1
    /\ \E i \in 1..(Len(FinalList) - 1) :
          /\ ProcessedAt(FinalList[i]) > ProcessedAt(FinalList[i + 1])
          /\ FinalList[i].score > FinalList[i + 1].score

\* the events of a run over a non-empty list are a prefix of: the count, the
\* progress events, the final streets event; and between two progress events one
\* street, and one only, is looked up, scored and accumulated
C3_Shape ==
    (pc \notin {"request", "stream"} /\ total_streets # 0) =>
        LET p == Len(ProgressValues)
        IN  /\ pc # "aborted"
            /\ events # <<>>
            /\ events[1] = [count |-> total_streets]
            /\ \A k \in 2..Len(events) :
                  /\ ~IsCount(events[k])
                  /\ IsFinal(events[k]) => (k = Len(events) /\ k = total_streets + 2)
                  /\ IsProgress(events[k]) => (~IsFinal(events[k]) /\ k <= total_streets + 1)
            /\ p <= Len(scored_streets)
            /\ Len(scored_streets) <= lookups
            /\ lookups <= p + 1
            /\ pc = "lookup" => lookups = p
            /\ pc = "done" =>
                  /\ Len(events) = total_streets + 2
                  /\ FinalEmitted
                  /\ p = total_streets
                  /\ lookups = total_streets

\* a progress event is emitted when as many streets are looked up and accumulated
\* as progress events are then out; after the final event nothing happens
C3_Step ==
    /\ pc # "done"
    /\ Len(events') > Len(events) /\ IsProgress(events'[Len(events')])
            /\ ~IsFinal(events'[Len(events')]) =>
          /\ lookups = Len(ProgressValues) + 1
          /\ Len(scored_streets) = Len(ProgressValues) + 1
          /\ lookups' = lookups
          /\ scored_streets' = scored_streets

EntryKey(entry) == <<entry.name, entry.latitude, entry.longitude>>

Candidates(osm, google) == osm \o google

\* C6 as stated: get_merged_streets_only returns one entry for each distinct key
\* (name, latitude rounded to 6 decimals, longitude rounded to 6 decimals) among
\* the candidates of either source, in first-seen order, so that same-named
\* candidates with different rounded coordinates are both kept.
C6_OneEntryPerKey ==
    [][(pc = "request" /\ pc' = "stream") =>
            merged_streets' = MergeKeys(Candidates(osm_streets, google_streets))]_vars

\* C10: when the deduplicated candidate list is empty the run reports progress 100
\* and an empty final list at once, in one event, emits no count event and no
\* per-street progress event, looks up no amenity, and stops.
C10_EmptyList ==
    (pc # "request" /\ total_streets = 0) =>
        /\ pc \in {"stream", "done"}
        /\ lookups = 0
        /\ scored_streets = <<>>
        /\ pc = "stream" => events = <<>>
        /\ pc = "done" =>
              /\ events = <<[progress |-> 100, streets |-> <<>>]>>
              /\ ~ENABLED Next

\* a finished run over an empty list
C10_Witness ==
    /\ pc = "done"
    /\ total_streets = 0
    /\ events = <<[progress |-> 100, streets |-> <<>>]>>

-----------------------------------------------------------------------------
(* Properties of /update-weights (SpecWeights).                            *)

\* C7 as stated: for every list of length L, repeated names included, the category
\* listed at 0-based position k has weight L - k (the first-listed has L), and
\* every weight is a positive integer.
C7_WeightByPosition ==
    pc = "done" =>
        /\ \A k \in 1..Len(preferences) :
              result[preferences[k]] = Len(preferences) - (k - 1)
        /\ \A a \in DOMAIN result : result[a] \in 1..Len(preferences)

\* the last (1-based) place of a name in a list
LastPlace(prefs, a) ==
    CHOOSE k \in 1..Len(prefs) :
        prefs[k] = a /\ \A j \in (k + 1)..Len(prefs) : prefs[j] # a

\* C7 as amended: for every list of length L the returned vector has the listed
\* names as its keys; a name has weight L - k for the 0-based position k of its
\* last occurrence (so in a list without a repeated name the first-listed has L
\* and position k has L - k), and every weight is a positive integer.
C7_WeightByLastPosition ==
    pc = "done" =>
        /\ DOMAIN result = {preferences[k] : k \in 1..Len(preferences)}
        /\ \A a \in DOMAIN result :
              /\ result[a] = Len(preferences) - (LastPlace(preferences, a) - 1)
              /\ result[a] \in 1..Len(preferences)

\* an answer to a list that names its first category again
C7_Witness ==
    /\ pc = "done"
    /\ Len(preferences) > 1
    /\ \E k \in 2..Len(preferences) : preferences[k] = preferences[1]
    /\ result[preferences[1]] < Len(preferences)

-----------------------------------------------------------------------------
(* Properties of the estimators (SpecScore, SpecNoise).                    *)

\* the number of places an amenity map has in a category
Places(amen, c) == IF c \in DOMAIN amen THEN amen[c] ELSE 0

\* the custom weights laid over the default catalog
Overlay(custom_weights) ==
    [c \in (DOMAIN AMENITY_WEIGHTS) \cup (DOMAIN custom_weights) |->
        IF c \in DOMAIN custom_weights THEN custom_weights[c] ELSE AMENITY_WEIGHTS[c]]

\* C5 as stated: with a custom weight vector that omits default-catalog categories
\* the score is the score under the custom weights laid over AMENITY_WEIGHTS: an
\* omitted category takes part with its default weight.
C5_OmittedCategoriesDefault ==
    (pc = "done" /\ weights # EmptyDict) =>
        result.score = calculate_street_score(amenities, Overlay(weights))

\* an amenity map without its empty lists / with an empty list for every category
\* it lacks
WithoutEmpty(amen) == [c \in {x \in DOMAIN amen : amen[x] > 0} |-> amen[c]]
WithEmpty(amen) == [c \in ScoreCats \cup DOMAIN amen |-> Places(amen, c)]

C11_ScoreInRange ==
    pc = "done" =>
        /\ result.score # KeyError
        /\ result.score \in 0..1000

\* the noise table as the specification gives it, in tenths: six buckets, 1.0 for
\* any other category
BucketWeight(c) ==
    CASE c = "Transports" -> 30 [] c = "Shops" -> 20 [] c = "Entertainment" -> 25
      [] c = "Restaurants" -> 15 [] c = "Shrines" -> 5 [] c = "Parks" -> 3
      [] OTHER -> 10

\* round(total / 98 * 10, 2) in hundredths, total in tenths
StatedNoiseScore(amen) ==
    LET total == SumOver([c \in DOMAIN amen |-> BucketWeight(c) * amen[c]], DOMAIN amen)
    IN  RoundDiv(total * 100, 98)

LabelRank(label) == CASE label = "Low" -> 0 [] label = "Medium" -> 1 [] label = "High" -> 2

C9_Label ==
    /\ MaxNoise = 980
    /\ result \in {"Low", "Medium", "High"}
    /\ result = "High" <=> StatedNoiseScore(amenities) >= 700
    /\ result = "Medium" <=>
            (400 <= StatedNoiseScore(amenities) /\ StatedNoiseScore(amenities) < 700)

\* C9: the label is "High" exactly when noise_score >= 7.00, "Medium" exactly when
\* 4.00 <= noise_score < 7.00, "Low" otherwise, with noise_score = round(total / 98
\* * 10, 2), total the sum of count times noise weight and weight 1.0 outside the
\* six buckets; and one more amenity never lowers the label.
C9_NoiseLabel == [](C9_Label) /\ [][LabelRank(result') >= LabelRank(result)]_vars

\* noise_score exactly 7.00, with places in and outside the table: "High"
C9_Witness ==
    /\ StatedNoiseScore(amenities) = 700
    /\ result = "High"
    /\ Places(amenities, "Hospital") > 0
    /\ Places(amenities, "Parks") > 0

====
